---- MODULE Spec2Model ----
(***************************************************************************)
(* Model of the Boom Summarizer API (src/main.py): the POST /summarize     *)
(* handler, its input guard, file reading, optional external-model call    *)
(* and heuristic fallback.                                                 *)
(*                                                                         *)
(* Python str values that the code inspects (the text, file names, the     *)
(* credential) are sequences of code points; bytes are sequences of        *)
(* 0..255.  Fixed literals the code only passes along are TLA+ strings.    *)
(* Optional[T] is a record [some, val].                                    *)
(***************************************************************************)
EXTENDS Integers, Sequences, FiniteSets, TLC

\* ------------------------------------------------------------------ bounds
\* longest pasted text drawn character by character
MaxLen == 3
\* longest uploaded file content, in bytes
MaxBytes == 2
\* most lines of the generated "Line1\nLine2\n..." texts
MaxLines == 7
\* longest external response body, in tokens
MaxBody == 3
\* stands for the 12000 of text[:12000] (src/main.py:70), scaled down so that
\* texts longer than the prompt window occur within the other bounds
PromptLimit == 4

\* ------------------------------------------------------------ Optional[T]
None == [some |-> FALSE, val |-> <<>>]
Some(v) == [some |-> TRUE, val |-> v]

\* --------------------------------------------------------- str operations
\* code points str.strip() removes (those below 256)
WhitespaceChars == {9, 10, 11, 12, 13, 28, 29, 30, 31, 32, 133, 160}
\* code points str.splitlines() breaks at
LineBreakChars == {10, 11, 12, 13, 28, 29, 30, 133, 8232, 8233}

Min(a, b) == IF a <= b THEN a ELSE b

\* s[:n]
Take(s, n) == SubSeq(s, 1, Min(n, Len(s)))

\* s[-n:]
Last(s, n) == SubSeq(s, Len(s) - Min(n, Len(s)) + 1, Len(s))

RECURSIVE lstrip(_)
lstrip(s) ==
    IF s # <<>> /\ Head(s) \in WhitespaceChars THEN lstrip(Tail(s)) ELSE s

RECURSIVE rstrip(_)
rstrip(s) ==
    IF s # <<>> /\ s[Len(s)] \in WhitespaceChars
    THEN rstrip(SubSeq(s, 1, Len(s) - 1))
    ELSE s

\* str.strip()
strip(s) == rstrip(lstrip(s))

\* str.splitlines(): break at every line boundary ("\r\n" is one boundary);
\* the boundary is not kept; no empty last line after a final boundary
RECURSIVE SplitFrom(_, _, _, _)
SplitFrom(s, i, cur, acc) ==
    IF i > Len(s) THEN (IF cur = <<>> THEN acc ELSE Append(acc, cur))
    ELSE IF s[i] = 13 /\ i < Len(s) /\ s[i + 1] = 10
         THEN SplitFrom(s, i + 2, <<>>, Append(acc, cur))
    ELSE IF s[i] \in LineBreakChars
         THEN SplitFrom(s, i + 1, <<>>, Append(acc, cur))
    ELSE SplitFrom(s, i + 1, Append(cur, s[i]), acc)

splitlines(s) == SplitFrom(s, 1, <<>>, <<>>)

\* str.lower() on ASCII
lower(s) == [i \in 1..Len(s) |-> IF s[i] \in 65..90 THEN s[i] + 32 ELSE s[i]]

\* str.endswith(suffix)
endswith(s, suffix) ==
    /\ Len(suffix) <= Len(s)
    /\ SubSeq(s, Len(s) - Len(suffix) + 1, Len(s)) = suffix

\* bytes.decode("utf-8", errors="ignore") for bytes that are ASCII, a
\* two-byte lead (0xC2..0xDF), a continuation (0x80..0xBF) or invalid:
\* a lead followed by a continuation is one code point; a lead without its
\* continuation, a stray continuation and an invalid byte are dropped
RECURSIVE DecodeFrom(_, _)
DecodeFrom(b, i) ==
    IF i > Len(b) THEN <<>>
    ELSE IF b[i] < 128 THEN <<b[i]>> \o DecodeFrom(b, i + 1)
    ELSE IF b[i] \in 194..223 /\ i < Len(b) /\ b[i + 1] \in 128..191
         THEN <<(b[i] - 192) * 64 + (b[i + 1] - 128)>> \o DecodeFrom(b, i + 2)
    ELSE DecodeFrom(b, i + 1)

decode_ignore(b) == DecodeFrom(b, 1)

\* ------------------------------------------------------- fixed literals
DotTxt == <<46, 116, 120, 116>>

\* "No salient lines detected."
Placeholder ==
    <<78, 111, 32, 115, 97, 108, 105, 101, 110, 116, 32, 108, 105, 110, 101,
      115, 32, 100, 101, 116, 101, 99, 116, 101, 100, 46>>

\* the apostrophe of "Boom's" is a mis-encoded U+2019 in the source
HeuristicPurpose ==
    "Summarize an uploaded document or pasted text into Boom's standard sections."
HeuristicRisks == <<"Not verified. Heuristic mode.">>
HeuristicNextSteps ==
    <<"Provide clearer objectives.", "Flag key metrics to extract.",
      "Request LLM mode if available.">>
HeuristicNotes == <<"LLM disabled or key missing.">>

MissingInputDetail == "Provide 'text' or a .txt 'file'."
UnsupportedDetail ==
    "Only .txt accepted in this minimal build. Use 'text' field for pasted content."

ModelName == "gpt-4o-mini"

\* ---------------------------------------------------- heuristic_summarize
\* lines = [ln.strip() for ln in text.splitlines() if ln.strip()]
NonEmptyLines(text) ==
    LET ls == splitlines(text)
        st == [i \in 1..Len(ls) |-> strip(ls[i])]
        Keep(l) == l # <<>>
    IN  SelectSeq(st, Keep)

SummaryOut(purpose, insights, risks, next_steps, notes, model_used) ==
    [purpose |-> purpose, insights |-> insights, risks |-> risks,
     next_steps |-> next_steps, notes |-> notes, model_used |-> model_used]

\* heuristic_summarize without the [:5]
heuristic_summarize_NoCut(text) ==
    LET lines == NonEmptyLines(text)
        head == Take(lines, 3)
        tail == IF Len(lines) >= 3 THEN Last(lines, 3) ELSE lines
        insights == IF head \o tail = <<>> THEN <<Placeholder>> ELSE head \o tail
    IN  SummaryOut(HeuristicPurpose, insights, HeuristicRisks,
                   HeuristicNextSteps, Some(HeuristicNotes), "heuristic")

\* heuristic_summarize without the  or ["No salient lines detected."]
heuristic_summarize_NoPlaceholder(text) ==
    LET lines == NonEmptyLines(text)
        head == Take(lines, 3)
        tail == IF Len(lines) >= 3 THEN Last(lines, 3) ELSE lines
    IN  SummaryOut(HeuristicPurpose, Take(head \o tail, 5), HeuristicRisks,
                   HeuristicNextSteps, Some(HeuristicNotes), "heuristic")

heuristic_summarize(text) ==
    LET lines == NonEmptyLines(text)
        head == Take(lines, 3)
        tail == IF Len(lines) >= 3 THEN Last(lines, 3) ELSE lines
        cut == Take(head \o tail, 5)
        insights == IF cut = <<>> THEN <<Placeholder>> ELSE cut
    IN  SummaryOut(HeuristicPurpose, insights, HeuristicRisks,
                   HeuristicNextSteps, Some(HeuristicNotes), "heuristic")

\* ------------------------------------------------------- read_file_bytes
\* upload.filename.lower().endswith(".txt")
\* the extension test without its dot: endswith("txt")
AcceptedName_NoDot(filename) == endswith(lower(filename), <<116, 120, 116>>)

AcceptedName(filename) == endswith(lower(filename), DotTxt)

\* ------------------------------------------------------ summarize: guards
\* Python truthiness of Optional[str]: None and "" are falsy
Truthy(t) == t.some /\ t.val # <<>>

\* the guard written as  text == "" and not file : None gets past it
InputMissing_EmptyOnly(t, f) == t.some /\ t.val = <<>> /\ ~f.some

\* the guard written as  not (text and text.strip()) and not file
InputMissing_Stripped(t, f) == ~(t.some /\ strip(t.val) # <<>>) /\ ~f.some

\* if not text and not file
InputMissing(t, f) == ~Truthy(t) /\ ~f.some

\* the precedence reversed: the file is read only when no text was pasted
EffectiveText_TextFirst(t, f) ==
    IF Truthy(t) \/ ~f.some THEN t ELSE Some(decode_ignore(f.val.content))

\* if file: text = await read_file_bytes(file)
EffectiveText(t, f) == IF f.some THEN Some(decode_ignore(f.val.content)) ELSE t

\* os.getenv("OPENAI_API_KEY", "").strip()
StrippedKey(e) == strip(IF e.some THEN e.val ELSE <<>>)

\* the credential test without .strip()
ExternalEnabled_NoStrip(e) == e.some /\ e.val # <<>>

\* if openai_key:
ExternalEnabled(e) == StrippedKey(e) # <<>>

\* the summary type and the document part text[:12000] of the prompt
Prompt(summary_type, text) ==
    [summary_type |-> summary_type, document |-> Take(text, PromptLimit)]

Payload(summary_type, text) ==
    [model |-> ModelName, input |-> Prompt(summary_type, text)]

\* except httpx.HTTPError: only the failures of the call itself are caught
Caught_TransportOnly(e) == e \in {"ConnectError", "TimeoutException", "HTTPStatusError"}

\* except Exception: every failure of the external path is caught
Caught(e) == TRUE

\* the fallback run on the prompt's window of the text
Fallback_Truncated(text) == heuristic_summarize(Take(text, PromptLimit))

\* return heuristic_summarize(text)
Fallback(text) == heuristic_summarize(text)

\* ------------------------------------------- the external response, parsed
\* txt = str(data) is a sequence of tokens: an opening brace, a closing
\* brace, a JSON object member  "k": v  (with the comma that separates it
\* from the member before it) or text that is not JSON.  The value v of a
\* member is the string "s", null or the list ["s"].
LB == [t |-> "{", k |-> "", v |-> ""]
RB == [t |-> "}", k |-> "", v |-> ""]
Junk == [t |-> "junk", k |-> "", v |-> ""]
Member(k, v) == [t |-> "member", k |-> k, v |-> v]

\* txt.find("{"): the first index, 0 standing for Python's -1
RECURSIVE FindFrom(_, _, _)
FindFrom(txt, tok, i) ==
    IF i > Len(txt) THEN 0
    ELSE IF txt[i] = tok THEN i
    ELSE FindFrom(txt, tok, i + 1)

find(txt, tok) == FindFrom(txt, tok, 1)

\* txt.rfind("}"): the last index, 0 standing for Python's -1
RECURSIVE RFindFrom(_, _, _)
RFindFrom(txt, tok, i) ==
    IF i < 1 THEN 0
    ELSE IF txt[i] = tok THEN i
    ELSE RFindFrom(txt, tok, i - 1)

rfind(txt, tok) == RFindFrom(txt, tok, Len(txt))

\* body = txt[start:end+1] if start != -1 and end != -1 else ""
ExtractSpan(txt) ==
    LET start == find(txt, LB)
        end == rfind(txt, RB)
    IN  IF start # 0 /\ end # 0 THEN SubSeq(txt, start, end) ELSE <<>>

\* json.loads(body) succeeds: an object, i.e. braces around members only
Parses(body) ==
    /\ Len(body) >= 2
    /\ body[1] = LB
    /\ body[Len(body)] = RB
    /\ \A i \in 2..(Len(body) - 1) : body[i].t = "member"

\* the dict json.loads builds: a repeated key keeps its last value
ParsedKeys(body) == {body[i].k : i \in 2..(Len(body) - 1)}

ParsedValue(body, k) ==
    LET at == {i \in 2..(Len(body) - 1) : body[i].k = k}
        last == CHOOSE i \in at : \A j \in at : j <= i
    IN  body[last].v

\* parsed.get(k, default): the kind of value found, "missing" standing for
\* the default
Get(body, k) == IF k \in ParsedKeys(body) THEN ParsedValue(body, k) ELSE "missing"

\* parsed.get(k, []) or []: null is falsy, "s" and ["s"] are truthy
GetList(body, k) == IF Get(body, k) \in {"missing", "null"} THEN "empty" ELSE Get(body, k)

\* pydantic accepts purpose: str and insights, risks, next_steps: List[str]
Validates(body) ==
    /\ Get(body, "purpose") \in {"missing", "str"}
    /\ \A k \in {"insights", "risks", "next_steps"} : GetList(body, k) \in {"empty", "list"}

\* the list ["s"] as insights (lines are code points) and as the other lists
ListOfText(kind) == IF kind = "list" THEN <<<<115>>>> ELSE <<>>
ListOfLiteral(kind) == IF kind = "list" THEN <<"s">> ELSE <<>>

\* SummaryOut(purpose=parsed.get("purpose",""), ..., model_used="gpt-4o-mini")
ModelSummary(body) ==
    SummaryOut(IF Get(body, "purpose") = "str" THEN "s" ELSE "",
               ListOfText(GetList(body, "insights")),
               ListOfLiteral(GetList(body, "risks")),
               ListOfLiteral(GetList(body, "next_steps")),
               None, ModelName)

\* what lines 83-96 raise on txt, "" when they raise nothing
ParseError(txt) ==
    IF ~Parses(ExtractSpan(txt)) THEN "JSONDecodeError"
    ELSE IF ~Validates(ExtractSpan(txt)) THEN "ValidationError"
    ELSE ""

\* ------------------------------------------------------------------ inputs
RECURSIVE SeqsUpTo(_, _)
SeqsUpTo(S, n) ==
    IF n = 0 THEN {<<>>}
    ELSE LET shorter == SeqsUpTo(S, n - 1)
         IN  shorter \cup {Append(q, c) : q \in shorter, c \in S}

\* "Line" followed by the digit i
Line(i) == <<76, 105, 110, 101, 48 + i>>

\* "Line1\nLine2\n...\nLinek"
RECURSIVE LinesText(_)
LinesText(k) ==
    IF k = 0 THEN <<>>
    ELSE (IF k = 1 THEN <<>> ELSE LinesText(k - 1) \o <<10>>) \o Line(k)

\* pasted texts: every text of newline, space and "a" up to MaxLen, and the
\* numbered-line texts up to MaxLines
Texts == SeqsUpTo({10, 32, 97}, MaxLen) \cup {LinesText(k) : k \in 1..MaxLines}

\* "a.txt", "A.TXT", "a.pdf", "atxt"
FileNames ==
    {<<97, 46, 116, 120, 116>>, <<65, 46, 84, 88, 84>>,
     <<97, 46, 112, 100, 102>>, <<97, 116, 120, 116>>}

\* file contents: "a", newline, the two bytes of U+00E9 in either order or alone
Contents == SeqsUpTo({97, 10, 195, 169}, MaxBytes)

Upload(name, content) == [filename |-> name, content |-> content]

Files == {Upload(n, c) : n \in FileNames, c \in Contents}

SummaryTypes == {"short", "detailed", "executive"}

Request(t, f, st) == [text |-> t, file |-> f, summary_type |-> st]

\* a few pasted texts and uploads, to pair with every upload and pasted text
CoreTexts == {None, Some(<<>>), Some(<<32, 10>>), Some(LinesText(MaxLines))}
CoreFiles ==
    {None, Some(Upload(<<97, 46, 112, 100, 102>>, <<97>>)),
     Some(Upload(<<97, 46, 116, 120, 116>>, <<>>)),
     Some(Upload(<<65, 46, 84, 88, 84>>, <<97, 10, 97>>))}

OptTexts == {None} \cup {Some(t) : t \in Texts}
OptFiles == {None} \cup {Some(f) : f \in Files}

\* the requests of Spec: every text with a core upload, every upload with a
\* core text
Requests ==
    {Request(t, f, st) : t \in OptTexts, f \in CoreFiles, st \in SummaryTypes}
    \cup {Request(t, f, st) : t \in CoreTexts, f \in OptFiles, st \in SummaryTypes}

\* the requests of SpecExternal
CoreRequests ==
    {Request(t, f, "executive") : t \in CoreTexts, f \in CoreFiles}

\* the external response bodies
Tokens ==
    {LB, RB, Junk, Member("purpose", "str"), Member("purpose", "null"),
     Member("insights", "list"), Member("insights", "null"),
     Member("risks", "str"), Member("next_steps", "list")}

Bodies == SeqsUpTo(Tokens, MaxBody)

\* the response bodies of Spec
CoreBodies ==
    {<<>>, <<Junk>>, <<RB, LB>>, <<LB, RB>>,
     <<LB, Member("purpose", "str"), Member("insights", "list"), RB>>,
     <<LB, Member("purpose", "null"), RB>>}

\* OPENAI_API_KEY: unset, "", " ", " k"
EnvKeys == {None, Some(<<>>), Some(<<32>>), Some(<<32, 107>>)}

\* ------------------------------------------------------------------- state
VARIABLES
    env,        \* the OPENAI_API_KEY environment variable
    pc,         \* where the handler of the current request stands
    req,        \* the request as received
    text,       \* the handler's local text
    sent,       \* the payloads posted to the provider for this request
    http,       \* "" before the provider answers, then "2xx" or "error"
    txt,        \* str(data) of the provider's answer
    exc,        \* the exception the external path raised last, "" if none
    status,     \* the HTTP status of the answer, 0 before it
    detail,     \* the detail of an HTTPException
    response,   \* the SummaryOut returned
    visited     \* the handler positions this request has been at

vars == <<env, pc, req, text, sent, http, txt, exc, status, detail, response, visited>>

NoRequest == Request(None, None, "executive")

Init ==
    /\ env \in EnvKeys
    /\ pc = "idle"
    /\ req = NoRequest
    /\ text = None
    /\ sent = <<>>
    /\ http = ""
    /\ txt = <<>>
    /\ exc = ""
    /\ status = 0
    /\ detail = ""
    /\ response = None
    /\ visited = {}

Goto(l) == pc' = l /\ visited' = visited \cup {l}

\* raise HTTPException(status_code=code, detail=d), or an unhandled exception
Fail(code, d) ==
    /\ status' = code
    /\ detail' = d
    /\ response' = None
    /\ Goto("done")

\* return out
Return(out) ==
    /\ status' = 200
    /\ detail' = ""
    /\ response' = Some(out)
    /\ Goto("done")

\* POST /summarize arrives with form fields text, file, summary_type
Receive(Reqs) ==
    /\ pc = "idle"
    /\ \E r \in Reqs :
        /\ req' = r
        /\ text' = r.text
    /\ pc' = "guard"
    /\ visited' = {"guard"}
    /\ sent' = <<>>
    /\ http' = ""
    /\ txt' = <<>>
    /\ exc' = ""
    /\ status' = 0
    /\ detail' = ""
    /\ response' = None
    /\ UNCHANGED env

\* lines 47-49
InputGuard ==
    /\ pc = "guard"
    /\ IF InputMissing(text, req.file)
       THEN Fail(400, MissingInputDetail)
       ELSE Goto("assemble") /\ UNCHANGED <<status, detail, response>>
    /\ UNCHANGED <<env, req, text, sent, http, txt, exc>>

\* lines 51-54 and read_file_bytes
AssembleInput ==
    /\ pc = "assemble"
    /\ IF req.file.some /\ ~AcceptedName(req.file.val.filename)
       THEN Fail(400, UnsupportedDetail) /\ UNCHANGED text
       ELSE IF ~EffectiveText(text, req.file).some
       THEN Fail(500, "AssertionError") /\ UNCHANGED text
       ELSE /\ text' = EffectiveText(text, req.file)
            /\ Goto("select")
            /\ UNCHANGED <<status, detail, response>>
    /\ UNCHANGED <<env, req, sent, http, txt, exc>>

\* lines 57-58
SelectPath ==
    /\ pc = "select"
    /\ IF ExternalEnabled(env) THEN Goto("call") ELSE Goto("heuristic")
    /\ UNCHANGED <<env, req, text, sent, http, txt, exc, status, detail, response>>

\* an exception inside the try block: lines 97-99
Raise(e) ==
    /\ exc' = e
    /\ IF Caught(e)
       THEN Goto("heuristic") /\ UNCHANGED <<status, detail, response>>
       ELSE Fail(500, e)

Post == sent' = Append(sent, Payload(req.summary_type, text.val))

\* lines 59-81
ExternalCall(Answers) ==
    /\ pc = "call"
    /\ \/ /\ Raise("ImportError")
          /\ UNCHANGED <<sent, http, txt>>
       \/ /\ \E e \in {"ConnectError", "TimeoutException"} : Raise(e)
          /\ Post
          /\ UNCHANGED <<http, txt>>
       \/ /\ Raise("HTTPStatusError")
          /\ Post
          /\ http' = "error"
          /\ UNCHANGED txt
       \/ /\ Raise("JSONDecodeError")
          /\ Post
          /\ http' = "2xx"
          /\ UNCHANGED txt
       \/ /\ \E b \in Answers : txt' = b
          /\ Post
          /\ http' = "2xx"
          /\ Goto("parse")
          /\ UNCHANGED <<exc, status, detail, response>>
    /\ UNCHANGED <<env, req, text>>

\* lines 83-96
ParseResponse ==
    /\ pc = "parse"
    /\ IF ParseError(txt) = ""
       THEN Return(ModelSummary(ExtractSpan(txt))) /\ UNCHANGED exc
       ELSE Raise(ParseError(txt))
    /\ UNCHANGED <<env, req, text, sent, http, txt>>

\* line 101
Heuristic ==
    /\ pc = "heuristic"
    /\ Return(Fallback(text.val))
    /\ UNCHANGED <<env, req, text, sent, http, txt, exc>>

\* the answer is sent and the handler's locals are gone
Respond ==
    /\ pc = "done"
    /\ pc' = "idle"
    /\ req' = NoRequest
    /\ text' = None
    /\ sent' = <<>>
    /\ http' = ""
    /\ txt' = <<>>
    /\ exc' = ""
    /\ status' = 0
    /\ detail' = ""
    /\ response' = None
    /\ visited' = {}
    /\ UNCHANGED env

Next ==
    \/ Receive(Requests)
    \/ InputGuard
    \/ AssembleInput
    \/ SelectPath
    \/ ExternalCall(CoreBodies)
    \/ ParseResponse
    \/ Heuristic
    \/ Respond

Spec == Init /\ [][Next]_vars

NextExternal ==
    \/ Receive(CoreRequests)
    \/ InputGuard
    \/ AssembleInput
    \/ SelectPath
    \/ ExternalCall(Bodies)
    \/ ParseResponse
    \/ Heuristic
    \/ Respond

SpecExternal == Init /\ [][NextExternal]_vars

\* ================================================================== claims
\* the credential is non-empty after trimming: it holds a character that is
\* not whitespace
Configured == env.some /\ \E i \in 1..Len(env.val) : env.val[i] \notin WhitespaceChars

\* the request got past the input guard and the file-extension check
ValidationPassed == "select" \in visited

\* one of the two producer paths was run
ProducerRun == visited \cap {"select", "call", "parse", "heuristic"} # {}

\* the name ends in ".txt", in either case of each letter
HasTxtExtension(name) ==
    /\ Len(name) >= 4
    /\ name[Len(name) - 3] = 46
    /\ name[Len(name) - 2] \in {116, 84}
    /\ name[Len(name) - 1] \in {120, 88}
    /\ name[Len(name)] \in {116, 84}

AllWhitespace(s) == \A i \in 1..Len(s) : s[i] \in WhitespaceChars

ByModel == response.some /\ response.val.model_used = ModelName
ByHeuristic == response.some /\ response.val.model_used = "heuristic"

\* C1: a request that passed input validation ends with status 200 and a
\* SummaryOut, and whenever the external path raised (import, transport,
\* timeout, status, body not JSON, span not parseable, wrong shape) the
\* answer is the heuristic result, marked "heuristic"; until it ends the
\* request has no error status.
C1_FailuresAbsorbed ==
    /\ (ValidationPassed /\ pc # "done") => status = 0
    /\ (ValidationPassed /\ pc = "done") => (status = 200 /\ response.some)
    /\ (pc = "done" /\ exc # "") =>
          /\ status = 200
          /\ ByHeuristic
          /\ response.val = heuristic_summarize(text.val)

\* C1 witness: the outbound call timed out and the answer is 200, heuristic
C1_Witness ==
    /\ pc = "done"
    /\ exc = "TimeoutException"
    /\ status = 200
    /\ ByHeuristic

\* C2: a request without text and without file ends with the 400 that asks
\* for text or a file, and no producer path is run for it.
C2_BothAbsentRejected ==
    (pc \notin {"idle", "guard"} /\ ~req.text.some /\ ~req.file.some) =>
        /\ pc = "done"
        /\ status = 400
        /\ detail = MissingInputDetail
        /\ ~response.some
        /\ ~ProducerRun
        /\ sent = <<>>

C2_Witness ==
    /\ pc = "done"
    /\ ~req.text.some
    /\ ~req.file.some
    /\ status = 400

\* C3: an upload whose name does not end in .txt (letters in either case)
\* ends with the 400 that says only .txt is accepted, with or without a
\* text field, and no summary is produced.
C3_NonTxtRejected ==
    (pc \notin {"idle", "guard", "assemble"} /\ req.file.some
        /\ ~HasTxtExtension(req.file.val.filename)) =>
        /\ pc = "done"
        /\ status = 400
        /\ detail = UnsupportedDetail
        /\ ~response.some
        /\ ~ProducerRun

\* C3 witness: a .pdf upload sent along with pasted text is rejected
C3_Witness ==
    /\ pc = "done"
    /\ Truthy(req.text)
    /\ req.file.some
    /\ req.file.val.filename = <<97, 46, 112, 100, 102>>
    /\ status = 400
    /\ detail = UnsupportedDetail

\* the scenario of C4: "Line1\n...\nLine7" pasted, no file, no credential
C4_Scenario ==
    /\ pc = "done"
    /\ req.text = Some(LinesText(7))
    /\ ~req.file.some
    /\ ~env.some

\* C4 as stated: in the scenario the insights are the six lines
\* Line1, Line2, Line3, Line5, Line6, Line7, with one risks entry and
\* model_used "heuristic".
C4_SixInsights ==
    C4_Scenario =>
        /\ response.some
        /\ response.val.insights = <<Line(1), Line(2), Line(3), Line(5), Line(6), Line(7)>>
        /\ Len(response.val.risks) = 1
        /\ response.val.model_used = "heuristic"

\* C4 amended: in the scenario the insights are the five lines
\* Line1, Line2, Line3, Line5, Line6 (head then tail, cut to five), with one
\* risks entry and model_used "heuristic".
C4_FiveInsights ==
    C4_Scenario =>
        /\ response.some
        /\ response.val.insights = <<Line(1), Line(2), Line(3), Line(5), Line(6)>>
        /\ Len(response.val.risks) = 1
        /\ response.val.model_used = "heuristic"

C4_Witness == C4_Scenario /\ status = 200

\* C5: every request that reaches the Summary Producer has a non-empty
\* effective text.
C5_NonEmptyEffectiveText ==
    ValidationPassed => (text.some /\ text.val # <<>>)

\* the input is non-empty plain text: pasted text without a file, or a .txt
\* upload with content
NonEmptyPlainInput ==
    \/ ~req.file.some /\ Truthy(req.text)
    \/ /\ req.file.some
       /\ HasTxtExtension(req.file.val.filename)
       /\ req.file.val.content # <<>>

\* C6: with no credential configured, a non-empty plain-text input is
\* answered by the heuristic with 1 to 5 insights and no outbound call.
C6_HeuristicBounded ==
    (pc = "done" /\ ~Configured /\ NonEmptyPlainInput) =>
        /\ status = 200
        /\ ByHeuristic
        /\ Len(response.val.insights) \in 1..5
        /\ sent = <<>>

\* C6 witness: a text of three lines or more, whose head and tail make six
C6_Witness ==
    /\ pc = "done"
    /\ ~Configured
    /\ ~req.file.some
    /\ req.text.some
    /\ Len(NonEmptyLines(req.text.val)) >= 3
    /\ Len(response.val.insights) = 5

\* C7: the external path is entered exactly when the credential is
\* non-empty after trimming; a request posts at most once, and not at all
\* when it does not enter the external path.
C7_PathSelection ==
    /\ (visited \cap {"call", "heuristic"} # {}) => (("call" \in visited) <=> Configured)
    /\ Len(sent) <= 1
    /\ ("call" \notin visited) => sent = <<>>

\* C7 witness: a whitespace-only credential, answered without any call
C7_Witness ==
    /\ env = Some(<<32>>)
    /\ pc = "done"
    /\ status = 200
    /\ "call" \notin visited
    /\ sent = <<>>

\* C8: with an accepted upload the effective text is the decoded content of
\* the file, whatever the text field holds: it is what the prompt is cut
\* from and what the heuristic result is computed from.
C8_FileWins ==
    (ValidationPassed /\ req.file.some) =>
        LET decoded == decode_ignore(req.file.val.content)
        IN  /\ text = Some(decoded)
            /\ \A i \in 1..Len(sent) : sent[i].input.document = Take(decoded, PromptLimit)
            /\ (pc = "done" /\ ByHeuristic) =>
                   response.val.insights = heuristic_summarize(decoded).insights

\* C8 witness: text and file both sent, with different contents
C8_Witness ==
    /\ pc = "done"
    /\ status = 200
    /\ req.file.some
    /\ Truthy(req.text)
    /\ NonEmptyLines(req.text.val) # NonEmptyLines(decode_ignore(req.file.val.content))
    /\ NonEmptyLines(req.text.val) # <<>>

\* C9 as stated: a pasted text without non-empty lines, no file, not
\* answered by the external model: the guard lets it pass and the insights
\* are the placeholder alone.
C9_AnyBlankText ==
    (pc = "done" /\ req.text.some /\ ~req.file.some
        /\ AllWhitespace(req.text.val) /\ ~ByModel) =>
        /\ status = 200
        /\ response.some
        /\ response.val.insights = <<Placeholder>>

\* C9 amended: the same for a pasted text of at least one character; the
\* empty text is rejected by the input guard like an absent one.
C9_NonEmptyBlankText ==
    (pc = "done" /\ req.text.some /\ ~req.file.some /\ req.text.val # <<>>
        /\ AllWhitespace(req.text.val) /\ ~ByModel) =>
        /\ status = 200
        /\ response.some
        /\ response.val.insights = <<Placeholder>>

C9_Witness ==
    /\ pc = "done"
    /\ req.text.some
    /\ ~req.file.some
    /\ req.text.val # <<>>
    /\ AllWhitespace(req.text.val)
    /\ status = 200
    /\ response.val.insights = <<Placeholder>>

\* the key is missing from the parsed object
MissingKey(k) == k \notin ParsedKeys(ExtractSpan(txt))

\* C10: a 200 answer is marked "heuristic" or "gpt-4o-mini"; it is marked
\* "gpt-4o-mini" only with a credential, one call answered with a success
\* status and a span that parsed as an object, and then notes is absent and
\* missing keys are "" or []; any other 200 answer is the heuristic result
\* of the whole effective text.
C10_ExclusivePaths ==
    status = 200 =>
        /\ response.some
        /\ response.val.model_used \in {"heuristic", ModelName}
        /\ ByModel =>
              /\ Configured
              /\ Len(sent) = 1
              /\ http = "2xx"
              /\ exc = ""
              /\ Parses(ExtractSpan(txt))
              /\ response.val.notes = None
              /\ MissingKey("purpose") => response.val.purpose = ""
              /\ MissingKey("insights") => response.val.insights = <<>>
              /\ MissingKey("risks") => response.val.risks = <<>>
              /\ MissingKey("next_steps") => response.val.next_steps = <<>>
        /\ ~ByModel => response.val = heuristic_summarize(text.val)

\* C10 witness: an answer by the model from a parsed object without purpose
C10_Witness ==
    /\ pc = "done"
    /\ ByModel
    /\ MissingKey("purpose")
    /\ ~MissingKey("insights")

====
